---------------------------- MODULE Spec2Model ----------------------------
(***************************************************************************)
(* Snow-cover workflow of the EO College notebooks.                        *)
(*                                                                         *)
(*   Spec        31_data_processing.py, cells In[12]..In[23]: the raster   *)
(*               cube s2 and the cubes derived from it (ndsi, snowmap,     *)
(*               cloud_mask, snowmap_cloudfree) up to the catchment        *)
(*               counts n_pixels.                                          *)
(*   SpecSeries  31_data_processing.py, cells In[28]..In[33]: the exported *)
(*               timeseries.json is assembled into the data frame df, the  *)
(*               percentages are derived, the cloudy timesteps removed and *)
(*               the result written as CSV.                                *)
(*   SpecJob     the batch job cells of 31_data_processing.py (In[24]..    *)
(*               In[28]) and 33_data_sharing_myownmap.py (In[13]..In[22]): *)
(*               create_job, start_and_wait, the status check, the guarded *)
(*               download and the use of what is in the results folder.    *)
(*   SpecJobFair SpecJob with the loop of start_and_wait weakly fair.      *)
(*   SpecValidation  32_validation.py, cells In[23]..In[31]: the SCA       *)
(*               extracted per station is combined with the station        *)
(*               measurements and compared with them.                      *)
(*   SpecGrid    the index and the threshold of In[13] and In[16] on       *)
(*               square rasters of two bands, and the threshold applied    *)
(*               to its own result.                                        *)
(*   SpecLazy    23_data_access_*.py: a cube is a process graph until a    *)
(*               call needs its values.                                    *)
(*   SpecLoad    31_data_processing.py, cells In[11] and In[12]: the       *)
(*               scenes of the collection that load_collection keeps.      *)
(*   SpecBuffer  32_validation.py, cell In[19]: the median of the cells of *)
(*               a station buffer.                                         *)
(*   SpecMap     33_data_sharing_myownmap.py, cell In[11]: the median of a *)
(*               pixel over the time dimension.                            *)
(*                                                                         *)
(* Numbers.  A raster cell is an integer or NoData (openEO null).  A       *)
(* quotient is kept exact as the pair <<numerator, denominator>>: a zero   *)
(* denominator is the IEEE result of the division (0/0 = NaN, x/0 = inf),  *)
(* so every comparison is decided as the floating point one is.            *)
(***************************************************************************)
EXTENDS Integers, Sequences, FiniteSets, TLC

VARIABLES
    pc,                 \* raster workflow: the notebook cell evaluated last
    catchment_outline,  \* In[6] the pixels inside the catchment polygon
    s2,                 \* In[12] the loaded cube: [Times -> [Pix -> pixel]]
    ndsi,               \* In[13]
    snowmap,            \* In[16]
    cloud_mask,         \* In[17]
    snowmap_cloudfree,  \* In[18]
    reclassified,       \* the threshold of In[16] applied once and twice
    snowmap_cloudfree_masked, \* In[20]
    masks_reversed,     \* the masks of In[18] and In[20] in the other order
    n_pixels,           \* In[23] [Times -> <<n_catchment, n_cloud, n_snow>>]
    n_pixels_json,      \* In[28] timeseries.json as loaded: keys in file order
    df,                 \* In[31] the assembled data frame, a sequence of rows
    df_filtered,        \* In[31] the cloud filtered data frame
    csv,                \* In[33] 31_results/filtered_snow_perc.csv
    notebook,           \* the notebook that runs the batch job: "31" or "33"
    job_status,         \* the status of the batch job on the backend
    job_output,         \* the result asset of the job on the backend
    observed,           \* what the last job.status() call returned
    results,            \* the name results: "undefined" or "JobResults"
    used,               \* the calls made on the job's results so far
    file,               \* the result file in the results folder
    raised,             \* the exception the cell evaluated last ended with
    snow_time_series,   \* 32 In[23] the SCA per station, as loaded from JSON
    catchment_stations_fc,  \* 32 In[18] the geometries given to the backend
    catchment_stations_gpd, \* 32 In[17] the station table, one row per
                        \* station and date
    dates,              \* 32 In[24] the dates of the SCA series
    snow_val,           \* 32 In[24] snow_val_<station>: the SCA values
    station_frames,     \* 32 In[26] catchment_stations_gpd_<station>
    site_snow,          \* 32 In[27] <station>_snow
    metrics,            \* 32 In[31] validation_metrics(<station>_snow)
    datacube,           \* 23 the cube of the local connection
    SENTINEL2_L2A,      \* 31 In[11] the collection on the backend, inside the
                        \* spatial and temporal extent: per date its scene
    snow_map_cloud_free, \* 32 In[8] the classes of the cells of one station
                        \* buffer at one timestep
    snowmap_per_station, \* 32 In[19] the value extracted for that station
    snow_map_4dcube,    \* 33 In[10] the classes of one pixel, date by date
    snow_map_3dcube     \* 33 In[11] the value of that pixel with t reduced

cubeVars == <<snowmap_cloudfree_masked, masks_reversed, reclassified,
              catchment_outline, s2, ndsi, snowmap, cloud_mask,
              snowmap_cloudfree, n_pixels>>
seriesVars == <<n_pixels_json, df, df_filtered, csv>>
jobVars == <<notebook, job_status, job_output, observed, results, used, file,
             raised>>
validationVars == <<catchment_stations_fc,
                    snow_time_series, catchment_stations_gpd, dates, snow_val,
                    station_frames, site_snow, metrics>>
\* the variables of the notebooks 23 and 33
medianVars == <<snow_map_cloud_free, snowmap_per_station, snow_map_4dcube,
                snow_map_3dcube>>
restVars == <<datacube, SENTINEL2_L2A, medianVars>>
vars == <<pc, cubeVars, seriesVars, jobVars, validationVars, restVars>>

---------------------------------------------------------------------------
(* Bounds of the model *)

\* pixels of the bounding box
NPix == 2

Pix == 1 .. NPix

\* acquisition dates of the cube (ISO dates inside temporal_extent)
Times == {"2018-02-10", "2018-02-15"}

---------------------------------------------------------------------------
(* Cell values *)

\* openEO null: a cell without data (line 251: no data in the northern tile)
NoData == -9999

\* snow threshold 0.4 = ThresholdNum / ThresholdDen
ThresholdNum == 4
ThresholdDen == 10

\* Scene classification values treated as cloud
SCL_CLOUD_MEDIUM == 8
SCL_CLOUD_HIGH == 9
SCL_CLOUD_SHADOW == 3
\* Scene classification values of clear pixels used as inputs
SCL_VEGETATION == 4
SCL_SNOW == 11

\* replacement value of the cloud mask
CloudClass == 2

\* The pixels a scene is drawn from: <<B03, B11, SCL>>.
\*   (7,1) NDSI 0.75, (1,7) NDSI -0.75, (7,3) NDSI 0.4 exactly,
\*   (0,0) NDSI 0/0.
PixelInputs ==
    { [B03 |-> 7, B11 |-> 1, SCL |-> SCL_SNOW],
      [B03 |-> 7, B11 |-> 1, SCL |-> SCL_CLOUD_HIGH],
      [B03 |-> 1, B11 |-> 7, SCL |-> SCL_CLOUD_MEDIUM],
      [B03 |-> 1, B11 |-> 7, SCL |-> SCL_VEGETATION],
      [B03 |-> 7, B11 |-> 3, SCL |-> SCL_CLOUD_SHADOW],
      [B03 |-> 0, B11 |-> 0, SCL |-> SCL_VEGETATION],
      [B03 |-> NoData, B11 |-> NoData, SCL |-> NoData] }

\* The catchment polygons tried: the whole bounding box, or all but its
\* last pixel.
Outlines == { Pix, Pix \ {NPix} }

---------------------------------------------------------------------------
(* openEO pixel processes *)

subtract(x, y) == IF x = NoData \/ y = NoData THEN NoData ELSE x - y

add(x, y) == IF x = NoData \/ y = NoData THEN NoData ELSE x + y

\* (mutant) a division by zero gives 0
divide_ZeroDefault(x, y) ==
    IF x = NoData \/ y = NoData THEN <<NoData, 1>>
    ELSE IF y = 0 THEN <<0, 1>>
    ELSE <<x, y>>

\* x / y, exact: <<x, y>>; NoData when an operand is NoData
divide(x, y) == IF x = NoData \/ y = NoData THEN <<NoData, 1>> ELSE <<x, y>>

IsNaN(q) == q[1] = 0 /\ q[2] = 0

\* (mutant) >= instead of >
gt_quotient_Inclusive(q, num, den) ==
    IF q[1] = NoData THEN NoData
    ELSE IF q[2] = 0 THEN (IF q[1] > 0 THEN 1 ELSE 0)
    ELSE IF q[2] > 0 THEN (IF q[1] * den >= num * q[2] THEN 1 ELSE 0)
    ELSE (IF q[1] * den <= num * q[2] THEN 1 ELSE 0)

\* q > num/den for a quotient q (den > 0): 1, 0 or NoData.
\* NaN compares false; +inf is greater than every number.
gt_quotient(q, num, den) ==
    IF q[1] = NoData THEN NoData
    ELSE IF q[2] = 0 THEN (IF q[1] > 0 THEN 1 ELSE 0)
    ELSE IF q[2] > 0 THEN (IF q[1] * den > num * q[2] THEN 1 ELSE 0)
    ELSE (IF q[1] * den < num * q[2] THEN 1 ELSE 0)

gt(x, y) == IF x = NoData THEN NoData ELSE IF x > y THEN 1 ELSE 0

eq(x, y) == IF x = NoData THEN NoData ELSE IF x = y THEN 1 ELSE 0

\* openEO or: true wins over null
or(x, y) ==
    IF x = 1 \/ y = 1 THEN 1
    ELSE IF x = NoData \/ y = NoData THEN NoData
    ELSE 0

multiply(x, y) == IF x = NoData \/ y = NoData THEN NoData ELSE x * y

\* (mutant) a cell without data is not replaced
mask_KeepNull(data, m, replacement) ==
    IF data # NoData /\ m # NoData /\ m # 0 THEN replacement ELSE data

\* openEO mask: the data cell is replaced where the mask cell is non-zero
mask(data, m, replacement) ==
    IF m # NoData /\ m # 0 THEN replacement ELSE data

---------------------------------------------------------------------------
(* Cubes: [Times -> [Pix -> cell]] *)

EmptyCube == [t \in Times |-> [p \in Pix |-> NoData]]
EmptyQuotientCube == [t \in Times |-> [p \in Pix |-> <<NoData, 1>>]]
EmptySeries == [t \in Times |-> <<NoData, NoData, NoData>>]

\* (mutant) the bands exchanged
NdsiCell_Swapped(px) == divide(subtract(px.B11, px.B03), add(px.B03, px.B11))

\* In[13]: ndsi = (green - swir) / (green + swir)
NdsiCell(px) == divide(subtract(px.B03, px.B11), add(px.B03, px.B11))

\* In[16]: snowmap = ( ndsi > 0.4 ) * 1.0
SnowmapCell(q) == multiply(gt_quotient(q, ThresholdNum, ThresholdDen), 1)

\* (mutant) the classes exchanged
Threshold_Inverted(q, num, den) ==
    subtract(1, multiply(gt_quotient(q, num, den), 1))

\* ( x > num/den ) * 1.0: the threshold of In[16] with the cutoff num/den
Threshold(q, num, den) == multiply(gt_quotient(q, num, den), 1)

NotReclassified ==
    [cutoff |-> <<ThresholdNum, ThresholdDen>>, once |-> EmptyCube,
     twice |-> EmptyCube]

\* (mutant) the cloud shadow class 3 is left out of the mask
CloudMaskCell_NoShadow(px) ==
    multiply(or(eq(px.SCL, SCL_CLOUD_MEDIUM), eq(px.SCL, SCL_CLOUD_HIGH)), 1)

\* In[17]: cloud_mask = ( (scl == 8) | (scl == 9) | (scl == 3) ) * 1.0
CloudMaskCell(px) ==
    multiply(or(or(eq(px.SCL, SCL_CLOUD_MEDIUM), eq(px.SCL, SCL_CLOUD_HIGH)),
                eq(px.SCL, SCL_CLOUD_SHADOW)), 1)

\* (mutant) the default replacement of mask, null
CloudfreeCell_NullReplacement(snow, cloud) == mask(snow, cloud, NoData)

\* In[18]: snowmap_cloudfree = snowmap.mask(cloud_mask, replacement=2)
CloudfreeCell(snow, cloud) == mask(snow, cloud, CloudClass)

\* In[20]: snowmap_cloudfree.mask_polygon(catchment_outline['geometry'][0]):
\* the cells outside the polygon are replaced by null
MaskPolygonCell(data, p, geometry) == IF p \in geometry THEN data ELSE NoData

\* (mutant) > 0 instead of > -1: the no-snow cells are not counted
NCatchmentCell_GtZero(c) == multiply(gt(c, 0), 1)

\* In[23]: the three binary cubes that are summed
NCatchmentCell(c) == multiply(gt(c, -1), 1)
NCloudCell(m) == m
NSnowCell(c) == multiply(eq(c, 1), 1)

\* sum reducer of aggregate_spatial: the cells of the geometry that hold data
RECURSIVE SumCells(_, _)
SumCells(row, S) ==
    IF S = {} THEN 0
    ELSE LET p == CHOOSE x \in S : TRUE
             v == IF row[p] = NoData THEN 0 ELSE row[p]
         IN  v + SumCells(row, S \ {p})

---------------------------------------------------------------------------
(* The raster workflow, one action per notebook cell *)

\* In[6], In[12]: catchment outline and s2 = conn.load_collection(...)
RasterInit ==
    /\ pc = "s2"
    /\ catchment_outline \in Outlines
    /\ s2 \in [Times -> [Pix -> PixelInputs]]
    /\ ndsi = EmptyQuotientCube
    /\ snowmap = EmptyCube
    /\ cloud_mask = EmptyCube
    /\ snowmap_cloudfree = EmptyCube
    /\ reclassified = NotReclassified
    /\ snowmap_cloudfree_masked = EmptyCube
    /\ masks_reversed = EmptyCube
    /\ n_pixels = EmptySeries

\* In[13]
ComputeNdsi ==
    /\ pc = "s2"
    /\ ndsi' = [t \in DOMAIN s2 |->
                  [p \in DOMAIN s2[t] |-> NdsiCell(s2[t][p])]]
    /\ pc' = "ndsi"
    /\ UNCHANGED <<snowmap_cloudfree_masked, masks_reversed, reclassified,
                   catchment_outline, s2, snowmap, cloud_mask,
                   snowmap_cloudfree, n_pixels>>

\* In[16]
ComputeSnowmap ==
    /\ pc = "ndsi"
    /\ snowmap' = [t \in DOMAIN ndsi |->
                     [p \in DOMAIN ndsi[t] |-> SnowmapCell(ndsi[t][p])]]
    /\ pc' = "snowmap"
    /\ UNCHANGED <<snowmap_cloudfree_masked, masks_reversed, reclassified,
                   catchment_outline, s2, ndsi, cloud_mask,
                   snowmap_cloudfree, n_pixels>>

\* In[17]
ComputeCloudMask ==
    /\ pc = "snowmap"
    /\ cloud_mask' =
          [t \in Times |-> [p \in Pix |-> CloudMaskCell(s2[t][p])]]
    /\ pc' = "cloud_mask"
    /\ UNCHANGED <<snowmap_cloudfree_masked, masks_reversed, reclassified,
                   catchment_outline, s2, ndsi, snowmap,
                   snowmap_cloudfree, n_pixels>>

\* In[18]
ApplyCloudMask ==
    /\ pc = "cloud_mask"
    /\ snowmap_cloudfree' =
          [t \in Times |-> [p \in Pix |->
              CloudfreeCell(snowmap[t][p], cloud_mask[t][p])]]
    /\ pc' = "snowmap_cloudfree"
    /\ UNCHANGED <<snowmap_cloudfree_masked, masks_reversed, reclassified,
                   catchment_outline, s2, ndsi, snowmap, cloud_mask, n_pixels>>

\* In[23]: n_catchment.merge_cubes(n_cloud).merge_cubes(n_snow)
\*         .aggregate_spatial(geometries = catchment_outline, reducer = 'sum')
AggregateSpatial(cloudfree, cloud, geometry) ==
    [t \in Times |->
        << SumCells([p \in Pix |-> NCatchmentCell(cloudfree[t][p])], geometry),
           SumCells([p \in Pix |-> NCloudCell(cloud[t][p])], geometry),
           SumCells([p \in Pix |-> NSnowCell(cloudfree[t][p])], geometry) >>]

\* In[20]
MaskPolygon ==
    /\ pc = "snowmap_cloudfree"
    /\ snowmap_cloudfree_masked' =
          [t \in Times |-> [p \in Pix |->
              MaskPolygonCell(snowmap_cloudfree[t][p], p, catchment_outline)]]
    /\ pc' = "snowmap_cloudfree_masked"
    /\ UNCHANGED <<masks_reversed, reclassified, catchment_outline, s2, ndsi,
                   snowmap, cloud_mask, snowmap_cloudfree, n_pixels>>

\* the two masks in the other order:
\* snowmap.mask_polygon(geometry).mask(cloud_mask, replacement=2)
ReverseMasks ==
    /\ pc = "snowmap_cloudfree_masked"
    /\ masks_reversed' =
          [t \in Times |-> [p \in Pix |->
              CloudfreeCell(MaskPolygonCell(snowmap[t][p], p, catchment_outline),
                            cloud_mask[t][p])]]
    /\ pc' = "masks_reversed"
    /\ UNCHANGED <<snowmap_cloudfree_masked, reclassified, catchment_outline,
                   s2, ndsi, snowmap, cloud_mask, snowmap_cloudfree, n_pixels>>

CountPixels ==
    /\ pc = "snowmap_cloudfree_masked"
    /\ n_pixels' = AggregateSpatial(snowmap_cloudfree, cloud_mask,
                                    catchment_outline)
    /\ pc' = "n_pixels"
    /\ UNCHANGED <<snowmap_cloudfree_masked, masks_reversed, reclassified,
                   catchment_outline, s2, ndsi, snowmap, cloud_mask,
                   snowmap_cloudfree>>

\* the raster workflow is not run
RasterIdle ==
    /\ catchment_outline = {}
    /\ s2 = EmptyCube
    /\ ndsi = EmptyQuotientCube
    /\ snowmap = EmptyCube
    /\ cloud_mask = EmptyCube
    /\ snowmap_cloudfree = EmptyCube
    /\ reclassified = NotReclassified
    /\ snowmap_cloudfree_masked = EmptyCube
    /\ masks_reversed = EmptyCube
    /\ n_pixels = EmptySeries

---------------------------------------------------------------------------
(* The index and the threshold on a synthetic raster *)

\* side of the square raster
GridSide == 3

GridPix == 1 .. GridSide * GridSide

\* Pairs <<B03, B11>> a pixel of the raster is drawn from: NDSI 1, 0.4,
\* 0/0, -0.75 and -2 (a negative reflectance, as Sentinel-2 L2A has them
\* unless they are clipped), and a pixel without data.
BandPairs ==
    { <<1, 0>>, <<7, 3>>, <<0, 0>>, <<1, 7>>, <<-2, 6>>, <<NoData, NoData>> }

GridPixel(b) == [B03 |-> b[1], B11 |-> b[2]]

\* the rasters tried: one pair in every pixel, but for at most one pixel
GridInputs ==
    { [p \in GridPix |-> GridPixel(IF p = odd THEN b ELSE a)] :
        a \in BandPairs, b \in BandPairs, odd \in GridPix }

\* In[12]: the raster as the cube s2, the same at every date
GridInit ==
    /\ pc = "s2"
    /\ \E g \in GridInputs : s2 = [t \in Times |-> g]
    /\ catchment_outline = {}
    /\ ndsi = EmptyQuotientCube
    /\ snowmap = EmptyCube
    /\ cloud_mask = EmptyCube
    /\ snowmap_cloudfree = EmptyCube
    /\ reclassified = NotReclassified
    /\ snowmap_cloudfree_masked = EmptyCube
    /\ masks_reversed = EmptyCube
    /\ n_pixels = EmptySeries

---------------------------------------------------------------------------
(* The exported time series: timeseries.json *)

\* timesteps of the general inputs
MaxSteps == 3

\* The ISO-8601 keys of the export and the date fields each one spells
IsoKeys ==
    << "2018-02-03T00:00:00Z", "2018-02-15T00:00:00Z", "2018-02-28T00:00:00Z",
       "2018-03-01T00:00:00Z", "2018-03-12T00:00:00Z", "2018-04-06T00:00:00Z",
       "2018-04-21T00:00:00Z", "2018-05-11T00:00:00Z", "2018-05-31T00:00:00Z",
       "2018-06-20T00:00:00Z" >>

IsoFields(k) ==
    CASE k = "2018-02-03T00:00:00Z" -> <<2018, 2, 3>>
      [] k = "2018-02-15T00:00:00Z" -> <<2018, 2, 15>>
      [] k = "2018-02-28T00:00:00Z" -> <<2018, 2, 28>>
      [] k = "2018-03-01T00:00:00Z" -> <<2018, 3, 1>>
      [] k = "2018-03-12T00:00:00Z" -> <<2018, 3, 12>>
      [] k = "2018-04-06T00:00:00Z" -> <<2018, 4, 6>>
      [] k = "2018-04-21T00:00:00Z" -> <<2018, 4, 21>>
      [] k = "2018-05-11T00:00:00Z" -> <<2018, 5, 11>>
      [] k = "2018-05-31T00:00:00Z" -> <<2018, 5, 31>>
      [] k = "2018-06-20T00:00:00Z" -> <<2018, 6, 20>>

DaysBeforeMonth == <<0, 31, 59, 90, 120, 151, 181, 212, 243, 273, 304, 334>>

\* (mutant) the month of the key is ignored
to_datetime_DayOnly(k) == IsoFields(k)[1] * 365 + IsoFields(k)[3]

\* pd.to_datetime on an ISO key: the timestamp, as a day number
to_datetime(k) ==
    IsoFields(k)[1] * 365 + DaysBeforeMonth[IsoFields(k)[2]] + IsoFields(k)[3]

Range(f) == {f[i] : i \in DOMAIN f}

\* Per-timestep records <<n_catchment, n_cloud, n_snow>> of the export.
\* They come from In[23], so the cloud and snow counts are disjoint parts
\* of the total.
RecordInputs ==
    { r \in { <<100, 20, 30>>, <<100, 30, 20>>, <<4, 1, 3>>,
              <<0, 0, 0>>, <<3, 0, 3>>, <<3, 3, 0>> } :
        r[2] + r[3] <= r[1] }

KeyInputs == { IsoKeys[2], IsoKeys[4], IsoKeys[5], IsoKeys[9] }

\* key orders: sequences of distinct keys
KeySeqs(K, n) ==
    UNION { { ks \in [1 .. m -> K] :
                \A i, j \in 1 .. m : i # j => ks[i] # ks[j] } : m \in 0 .. n }

\* a JSON object: its keys in file order and, per key, one list per geometry
\* holding one value per band
JsonObjects(K, n) ==
    UNION { { [keys |-> ks, val |-> v] :
                v \in [Range(ks) -> { <<r>> : r \in RecordInputs }] } :
            ks \in KeySeqs(K, n) }

\* ten timesteps, three of them above the 25 % cloud threshold, keys unsorted
ScenarioJson ==
    [ keys |-> << IsoKeys[4], IsoKeys[1], IsoKeys[10], IsoKeys[2], IsoKeys[7],
                  IsoKeys[3], IsoKeys[9], IsoKeys[5], IsoKeys[8], IsoKeys[6] >>,
      val  |-> [ k \in Range(IsoKeys) |->
                   IF k \in {IsoKeys[2], IsoKeys[6]} THEN << <<100, 30, 20>> >>
                   ELSE IF k = IsoKeys[9] THEN << <<3, 3, 0>> >>
                   ELSE IF k = IsoKeys[5] THEN << <<3, 0, 3>> >>
                   ELSE << <<100, 20, 30>> >> ] ]

JsonInputs == JsonObjects(KeyInputs, MaxSteps) \cup {ScenarioJson}

---------------------------------------------------------------------------
(* Data frame operations *)

\* (mutant) the quotient is not scaled to a percentage
scale_Unscaled(q, k) == q

\* q * k for a quotient q; NaN and inf stay what they are
scale(q, k) == IF q[1] = NoData THEN q ELSE <<q[1] * k, q[2]>>

\* (mutant) <= instead of <
lt_quotient_Inclusive(q, y) ==
    IF q[1] = NoData THEN FALSE
    ELSE IF q[2] = 0 THEN q[1] < 0
    ELSE IF q[2] > 0 THEN q[1] <= y * q[2]
    ELSE q[1] >= y * q[2]

\* q < y for a quotient q: NaN compares false
lt_quotient(q, y) ==
    IF q[1] = NoData THEN FALSE
    ELSE IF q[2] = 0 THEN q[1] < 0
    ELSE IF q[2] > 0 THEN q[1] < y * q[2]
    ELSE q[1] > y * q[2]

\* In[31]: one row per key, in the order of the keys
Rows(json) ==
    [ i \in 1 .. Len(json.keys) |->
        [ time             |-> to_datetime(json.keys[i]),
          n_catchment_vals |-> json.val[json.keys[i]][1][1],
          n_cloud_vals     |-> json.val[json.keys[i]][1][2],
          n_snow_vals      |-> json.val[json.keys[i]][1][3] ] ]

\* insert row r into the rows sorted by time, after the rows not later
RECURSIVE InsertByTime(_, _)
InsertByTime(r, sorted) ==
    IF sorted = <<>> THEN <<r>>
    ELSE IF r.time < Head(sorted).time THEN <<r>> \o sorted
    ELSE <<Head(sorted)>> \o InsertByTime(r, Tail(sorted))

RECURSIVE SortFrom(_, _)
SortFrom(rows, sorted) ==
    IF rows = <<>> THEN sorted
    ELSE SortFrom(Tail(rows), InsertByTime(Head(rows), sorted))

\* (mutant) the frame is left in the order of the JSON keys
sort_values_Unsorted(rows) == rows

\* df.sort_values(axis=0, by="time")
sort_values(rows) == SortFrom(rows, <<>>)

\* (mutant) the quotient is taken the wrong way round
PercCloud_Inverted(r) == scale(divide(r.n_catchment_vals, r.n_cloud_vals), 100)

\* In[32]: n_cloud_vals / n_catchment_vals * 100
PercCloud(r) == scale(divide(r.n_cloud_vals, r.n_catchment_vals), 100)

\* In[29]: n_snow_vals / n_catchment_vals * 100
PercSnow(r) == scale(divide(r.n_snow_vals, r.n_catchment_vals), 100)

\* cloud threshold of the filter, in percent
CloudThreshold == 25

\* In[31]: df["perc_cloud"] < 25
Keep(r) == lt_quotient(r.perc_cloud, CloudThreshold)

NoCsv == [exists |-> FALSE, rows |-> <<>>]

\* (mutant) the first row is dropped whatever it holds
Loc_SkipHead(rows) ==
    IF rows = <<>> THEN <<>> ELSE SelectSeq(Tail(rows), Keep)

RECURSIVE Loc(_)
Loc(rows) ==
    IF rows = <<>> THEN <<>>
    ELSE IF Keep(Head(rows)) THEN <<Head(rows)>> \o Loc(Tail(rows))
    ELSE Loc(Tail(rows))

---------------------------------------------------------------------------
(* The time series workflow, one action per notebook cell *)

\* In[28]: n_pixels_json = json.load(file)
SeriesInit ==
    /\ pc = "n_pixels_json"
    /\ n_pixels_json \in JsonInputs
    /\ df = <<>>
    /\ df_filtered = <<>>
    /\ csv = NoCsv

SeriesIdle ==
    /\ n_pixels_json = [keys |-> <<>>, val |-> <<>>]
    /\ df = <<>>
    /\ df_filtered = <<>>
    /\ csv = NoCsv

\* In[31]: the data frame, sorted by date
AssembleDf ==
    /\ pc = "n_pixels_json"
    /\ df' = sort_values(Rows(n_pixels_json))
    /\ pc' = "df"
    /\ UNCHANGED <<n_pixels_json, df_filtered, csv>>

\* In[32]: df["perc_cloud"] = perc_cloud
CalcPercCloud ==
    /\ pc = "df"
    /\ df' = [i \in 1 .. Len(df) |-> df[i] @@ ("perc_cloud" :> PercCloud(df[i]))]
    /\ pc' = "perc_cloud"
    /\ UNCHANGED <<n_pixels_json, df_filtered, csv>>

\* In[29]: df["perc_snow"] = perc_snow
CalcPercSnow ==
    /\ pc = "perc_cloud"
    /\ df' = [i \in 1 .. Len(df) |-> df[i] @@ ("perc_snow" :> PercSnow(df[i]))]
    /\ pc' = "perc_snow"
    /\ UNCHANGED <<n_pixels_json, df_filtered, csv>>

\* In[31]: df_filtered = df.loc[df["perc_cloud"]<25]
FilterCloud ==
    /\ pc = "perc_snow"
    /\ df_filtered' = Loc(df)
    /\ pc' = "df_filtered"
    /\ UNCHANGED <<n_pixels_json, df, csv>>

\* the filter of In[31] once more, on its own result:
\* df_filtered.loc[df_filtered["perc_cloud"]<25]
FilterAgain ==
    /\ pc = "df_filtered"
    /\ df_filtered' = Loc(df_filtered)
    /\ pc' = "filtered_again"
    /\ UNCHANGED <<n_pixels_json, df, csv>>

\* In[33]: df_filtered.to_csv("31_results/filtered_snow_perc.csv")
ExportCsv ==
    /\ pc = "df_filtered"
    /\ csv' = [exists |-> TRUE, rows |-> df_filtered]
    /\ pc' = "to_csv"
    /\ UNCHANGED <<n_pixels_json, df, df_filtered>>

---------------------------------------------------------------------------
(* The batch job *)

\* The statuses of a batch job.  The backend is not part of the repository:
\* its transitions follow the lifecycle the notebooks wait for,
\* created -> queued -> running -> finished | error | canceled.
Terminal == {"finished", "error", "canceled"}
Failure == {"error", "canceled"}

EmptyJson == [keys |-> <<>>, val |-> <<>>]
NoFile == [exists |-> FALSE, json |-> EmptyJson]

\* In[1]: cp -r $DATA_PATH/31_results/ $HOME/ puts the shipped results folder
\* in place, with or without a result file of an earlier run in it; the last
\* file is of a run that merged a fourth band in front of the three counts
ShippedFiles ==
    { NoFile,
      [exists |-> TRUE,
       json |-> [keys |-> <<IsoKeys[2]>>,
                 val |-> (IsoKeys[2] :> << <<7, 100, 20, 30>> >>)]],
      [exists |-> TRUE, json |-> ScenarioJson],
      [exists |-> TRUE,
       json |-> [keys |-> <<IsoKeys[4]>>,
                 val |-> (IsoKeys[4] :> << <<4, 1, 3>> >>)]] }

\* what the job computes
JobOutputs == JsonObjects({IsoKeys[2]}, 1)

\* the batch job workflow is not run
JobIdle ==
    /\ notebook = "none"
    /\ job_status = "none"
    /\ job_output = EmptyJson
    /\ observed = "none"
    /\ results = "undefined"
    /\ used = {}
    /\ file = NoFile
    /\ raised = "none"

\* In[24]: job = n_pixels_json.create_job(title="n_pixels_json")
JobInit ==
    /\ pc = "create_job"
    /\ notebook \in {"31", "33"}
    /\ job_status = "created"
    /\ job_output = EmptyJson
    /\ observed = "none"
    /\ results = "undefined"
    /\ used = {}
    /\ file \in ShippedFiles
    /\ raised = "none"
    /\ n_pixels_json = EmptyJson
    /\ df = <<>>
    /\ df_filtered = <<>>
    /\ csv = NoCsv

\* In[24]: job.start_and_wait() starts the job ...
StartJob ==
    /\ pc = "create_job"
    /\ job_status' = "queued"
    /\ pc' = "poll"
    /\ UNCHANGED <<notebook, job_output, observed, results, used, file, raised>>

\* (mutant) the wait ends at the first status it reads
PollEnds_FirstStatus(status) == TRUE

\* ... and polls its status until the status is a terminal one
PollEnds(status) == status \in Terminal

\* a failed or canceled job makes start_and_wait raise
WaitOutcome(status) ==
    IF status = "finished" THEN "none" ELSE "JobFailedException"

Poll ==
    /\ pc = "poll"
    /\ observed' = job_status
    /\ IF PollEnds(job_status)
       THEN /\ raised' = WaitOutcome(job_status)
            /\ pc' = "start_and_wait"
       ELSE /\ raised' = raised
            /\ pc' = "sleep"
    /\ UNCHANGED <<notebook, job_status, job_output, results, used, file>>

\* time.sleep between two polls
Sleep ==
    /\ pc = "sleep"
    /\ pc' = "poll"
    /\ UNCHANGED jobVars

\* the backend, while the client waits
BackendRun ==
    /\ job_status = "queued"
    /\ job_status' = "running"
    /\ UNCHANGED <<pc, notebook, job_output, observed, results, used, file,
                   raised>>

BackendFinish ==
    /\ job_status = "running"
    /\ job_status' = "finished"
    /\ job_output' \in JobOutputs
    /\ UNCHANGED <<pc, notebook, observed, results, used, file, raised>>

BackendFail ==
    /\ job_status = "running"
    /\ job_status' = "error"
    /\ UNCHANGED <<pc, notebook, job_output, observed, results, used, file,
                   raised>>

BackendCancel ==
    /\ job_status = "running"
    /\ job_status' = "canceled"
    /\ UNCHANGED <<pc, notebook, job_output, observed, results, used, file,
                   raised>>

\* In[26]: job.status().  The cells are evaluated one by one, so the cell
\* after start_and_wait is evaluated whether or not that cell raised.
ShowStatus ==
    /\ pc = "start_and_wait"
    /\ observed' = job_status
    /\ raised' = "none"
    /\ pc' = "status"
    /\ UNCHANGED <<notebook, job_status, job_output, results, used, file>>

\* (mutant) the results are fetched whatever the status is
DownloadGuard_Always(status) == TRUE

\* In[27]: if job.status() == "finished":
DownloadGuard(status) == status = "finished"

\* In[27]:     results = job.get_results()
\*             results.download_files("31_results/")
DownloadIfFinished ==
    /\ pc = "status"
    /\ observed' = job_status
    /\ IF DownloadGuard(job_status)
       THEN /\ results' = "JobResults"
            /\ used' = used \cup {"get_results", "download_files"}
            /\ file' = [exists |-> TRUE, json |-> job_output]
       ELSE UNCHANGED <<results, used, file>>
    /\ pc' = "download"
    /\ UNCHANGED <<notebook, job_status, job_output, raised>>

\* 31 In[28]: with open("31_results/timeseries.json","r") as file:
\*                n_pixels_json = json.load(file)
LoadTimeseries ==
    /\ pc = "download"
    /\ notebook = "31"
    /\ IF file.exists
       THEN /\ n_pixels_json' = file.json
            /\ raised' = "none"
            /\ pc' = "n_pixels_json"
       ELSE /\ n_pixels_json' = n_pixels_json
            /\ raised' = "FileNotFoundError"
            /\ pc' = "stopped"
    /\ UNCHANGED <<notebook, job_status, job_output, observed, results, used,
                   file>>

\* 33 In[22]: stac_collection = results.get_metadata()
GetMetadata ==
    /\ pc = "download"
    /\ notebook = "33"
    /\ IF results = "undefined"
       THEN /\ raised' = "NameError"
            /\ used' = used
            /\ pc' = "stopped"
       ELSE /\ raised' = "none"
            /\ used' = used \cup {"get_metadata"}
            /\ pc' = "get_metadata"
    /\ UNCHANGED <<notebook, job_status, job_output, observed, results, file,
                   n_pixels_json>>

---------------------------------------------------------------------------
(* Validation against the snow stations *)

\* stations modelled, out of the five of the notebook
NStations == 2

Stations == 1 .. NStations

\* the stations in the order of the geometries sent to aggregate_spatial,
\* which is the order of the indices 0..4 read in In[24]
StationNames ==
    << "S_Martino_in_Passiria_Osservatore", "Rifiano_Beobachter",
       "Plata_Osservatore", "S_Leonardo_in_Passiria_Osservatore",
       "Scena_Osservatore" >>

\* the part of every ISO key before its "T"
DateStrings ==
    << "2018-02-03", "2018-02-15", "2018-02-28", "2018-03-01", "2018-03-12",
       "2018-04-06", "2018-04-21", "2018-05-11", "2018-05-31", "2018-06-20" >>

\* k.split("T")[0]
split_T(k) == DateStrings[CHOOSE i \in DOMAIN IsoKeys : IsoKeys[i] = k]

\* a snow depth the station did not record: null in the file, NaN in the
\* frame
NaN == NoData

\* the station records of the validation scenario: snow on the first two of
\* four dates
ScenarioRecords ==
    << <<"2018-02-03", 1>>, <<"2018-02-15", 1>>, <<"2018-02-28", 0>>,
       <<"2018-03-01", 0>> >>

\* Daily records <<id, HS_after_gapfill>> of one station, by date.  The third
\* one has no record on 2018-03-01, the fourth and the fifth ones are of a
\* station that recorded no snow depth on some or on all dates.
StationRecordInputs ==
    { << <<"2018-02-15", 1>>, <<"2018-02-20", 1>>, <<"2018-03-01", 0>> >>,
      << <<"2018-02-15", 0>>, <<"2018-02-20", 0>>, <<"2018-03-01", 1>> >>,
      << <<"2018-02-15", 1>>, <<"2018-02-20", 0>> >>,
      << <<"2018-02-03", 1>>, <<"2018-02-15", NaN>>, <<"2018-02-28", 0>>,
         <<"2018-03-01", 1>> >>,
      << <<"2018-02-15", NaN>>, <<"2018-02-20", NaN>>, <<"2018-03-01", NaN>> >>,
      ScenarioRecords }

\* the location of a station, and the buffer around it
Point(name) == [type |-> "Point", station |-> name]
buffer(geometry) == [type |-> "Polygon", station |-> geometry.station]

\* the rows of a station after In[13]: name, date, snow depth and location
StationRows(name, records) ==
    [ i \in 1 .. Len(records) |->
        [Name |-> name, id |-> records[i][1],
         HS_after_gapfill |-> records[i][2], geometry |-> Point(name)] ]

\* the station table: the records of the stations, one station after another
RECURSIVE StationTable(_, _)
StationTable(choice, n) ==
    IF n = 0 THEN <<>>
    ELSE StationTable(choice, n - 1) \o StationRows(StationNames[n], choice[n])

\* the i-th record of every station that has one, station after station
RowsOfDay(choice, i, n) ==
    IF n = 0 THEN <<>>
    ELSE LET F[m \in 0 .. n] ==
                 IF m = 0 THEN <<>>
                 ELSE F[m - 1] \o
                      (IF i <= Len(choice[m])
                       THEN <<StationRows(StationNames[m], choice[m])[i]>>
                       ELSE <<>>)
         IN F[n]

\* the station table in the order of the daily records: the first record of
\* every station, then the second one of every station, and so on
RECURSIVE StationTableByDate(_, _)
StationTableByDate(choice, i) ==
    IF \A s \in Stations : i > Len(choice[s]) THEN <<>>
    ELSE RowsOfDay(choice, i, NStations) \o StationTableByDate(choice, i + 1)

ScaKeyInputs == { IsoKeys[2], IsoKeys[4] }

\* timeseries.json of the station job: per key one list per station geometry
\* holding the median of the one band
\* the SCA of the validation scenario: snow on the first of four dates, at
\* every station
ScenarioSca ==
    [keys |-> <<IsoKeys[1], IsoKeys[2], IsoKeys[3], IsoKeys[4]>>,
     val |-> [k \in {IsoKeys[1], IsoKeys[2], IsoKeys[3], IsoKeys[4]} |->
                [s \in Stations |-> IF k = IsoKeys[1] THEN <<1>> ELSE <<0>>]]]

ScaJsonInputs ==
    {ScenarioSca} \cup
    UNION { { [keys |-> ks, val |-> v] :
                v \in [Range(ks) -> [Stations -> { <<0>>, <<1>> }]] } :
            ks \in KeySeqs(ScaKeyInputs, Cardinality(ScaKeyInputs)) }

NoFrame == [defined |-> FALSE, rows |-> <<>>]
NoMetrics == [defined |-> FALSE]

\* the validation workflow is not run
ValidationIdle ==
    /\ snow_time_series = EmptyJson
    /\ catchment_stations_gpd = <<>>
    /\ catchment_stations_fc = <<>>
    /\ dates = <<>>
    /\ snow_val = <<>>
    /\ station_frames = <<>>
    /\ site_snow = <<>>
    /\ metrics = <<>>

\* In[13], In[23]: the station table after the temporal and the spatial
\* filter, and snow_time_series = json.load(file)
ValidationInit ==
    /\ pc = "catchment_stations"
    /\ snow_time_series \in ScaJsonInputs
    /\ \E choice \in [Stations -> StationRecordInputs] :
          catchment_stations_gpd \in { StationTable(choice, NStations),
                                       StationTableByDate(choice, 1) }
    /\ catchment_stations_fc = <<>>
    /\ dates = <<>>
    /\ snow_val = [s \in Stations |-> <<>>]
    /\ station_frames = [s \in Stations |-> <<>>]
    /\ site_snow = [s \in Stations |-> NoFrame]
    /\ metrics = [s \in Stations |-> NoMetrics]
    /\ raised = "none"

\* binarize_snow(row) of _32_cubes_utilities: 1 for a snow depth above the
\* threshold ThresholdNum / ThresholdDen, 0 below, nothing where no depth
\* was recorded
binarize_snow(row) ==
    IF row.HS_after_gapfill = NaN THEN NaN
    ELSE IF row.HS_after_gapfill * ThresholdDen > ThresholdNum THEN 1
    ELSE 0

\* In[15]: catchment_stations.assign(snow_presence=
\*             catchment_stations.apply(binarize_snow, axis=1))
BinarizeSnow ==
    /\ pc = "catchment_stations"
    /\ catchment_stations_gpd' =
          [i \in 1 .. Len(catchment_stations_gpd) |->
              catchment_stations_gpd[i] @@
                  ("snow_presence" :> binarize_snow(catchment_stations_gpd[i]))]
    /\ pc' = "snow_presence"
    /\ UNCHANGED <<catchment_stations_fc, snow_time_series, dates, snow_val, station_frames,
                   site_snow, metrics, raised>>

\* In[17]: catchment_stations_gpd["geometry"] =
\*             catchment_stations_gpd.geometry.buffer(0.00075)
BufferStations ==
    /\ pc = "snow_presence"
    /\ catchment_stations_gpd' =
          [i \in 1 .. Len(catchment_stations_gpd) |->
              [catchment_stations_gpd[i] EXCEPT !.geometry = buffer(@)]]
    /\ pc' = "buffer"
    /\ UNCHANGED <<catchment_stations_fc, snow_time_series, dates, snow_val,
                   station_frames, site_snow, metrics, raised>>

\* frame.iloc[:n]: the first n rows
iloc_head(rows, n) ==
    SubSeq(rows, 1, IF n < Len(rows) THEN n ELSE Len(rows))

\* In[18]: catchment_stations_fc = json.loads(
\*             catchment_stations_gpd.geometry.iloc[:5].to_json())
\* with as many rows as there are stations
FeatureCollection ==
    /\ pc = "buffer"
    /\ catchment_stations_fc' =
          [i \in 1 .. Len(iloc_head(catchment_stations_gpd, NStations)) |->
              iloc_head(catchment_stations_gpd, NStations)[i].geometry]
    /\ pc' = "snow_time_series"
    /\ UNCHANGED <<snow_time_series, catchment_stations_gpd, dates, snow_val,
                   station_frames, site_snow, metrics, raised>>

\* In[24]: dates = [k.split("T")[0] for k in snow_time_series]
\*         snow_val_smartino = [snow_time_series[k][0][0] for k in ...]
ExtractSnowValues ==
    /\ pc = "snow_time_series"
    /\ dates' = [i \in 1 .. Len(snow_time_series.keys) |->
                    split_T(snow_time_series.keys[i])]
    /\ snow_val' = [s \in Stations |->
                      [i \in 1 .. Len(snow_time_series.keys) |->
                          snow_time_series.val[snow_time_series.keys[i]][s][1]]]
    /\ pc' = "snow_val"
    /\ UNCHANGED <<catchment_stations_fc, snow_time_series, catchment_stations_gpd, station_frames,
                   site_snow, metrics, raised>>

\* catchment_stations_gpd.query("Name == '...'")
query_Name(table, name) == SelectSeq(table, LAMBDA r : r.Name = name)

\* frame[frame.id.isin(dates)]
isin_dates(frame, ds) == SelectSeq(frame, LAMBDA r : r.id \in Range(ds))

\* In[26]: each station's rows, kept on the dates of the SCA series
MatchDates ==
    /\ pc = "snow_val"
    /\ station_frames' =
          [s \in Stations |->
              isin_dates(query_Name(catchment_stations_gpd, StationNames[s]),
                         dates)]
    /\ pc' = "station_frames"
    /\ UNCHANGED <<catchment_stations_fc, snow_time_series, catchment_stations_gpd, dates, snow_val,
                   site_snow, metrics, raised>>

\* assign_site_snow(frame, values) of _32_cubes_utilities: the values become
\* the column cube_snow of the frame, the i-th value in the i-th row; the
\* lengths have to agree
CanAssign(frame, values) == Len(frame) = Len(values)

assign_site_snow(frame, values) ==
    [defined |-> TRUE,
     rows |-> [i \in 1 .. Len(frame) |-> frame[i] @@ ("cube_snow" :> values[i])]]

\* In[27]: smartino_snow = assign_site_snow(..._smartino, snow_val_smartino),
\* and so on station by station; the cell ends at the first call that raises
AssignSiteSnow ==
    /\ pc = "station_frames"
    /\ LET bad == {s \in Stations : ~CanAssign(station_frames[s], snow_val[s])}
           done == {s \in Stations : \A b \in bad : s < b}
       IN  /\ site_snow' =
                [s \in Stations |->
                    IF s \in done
                    THEN assign_site_snow(station_frames[s], snow_val[s])
                    ELSE NoFrame]
           /\ raised' = IF bad = {} THEN "none" ELSE "ValueError"
           /\ pc' = IF bad = {} THEN "site_snow" ELSE "stopped"
    /\ UNCHANGED <<catchment_stations_fc, snow_time_series, catchment_stations_gpd, dates, snow_val,
                   station_frames, metrics>>

\* current_df.dropna(): the rows without a missing value
dropna(rows) == SelectSeq(rows, LAMBDA r : r.snow_presence # NaN)

\* the rows whose true label is t and whose predicted label is p
RECURSIVE CountPairs(_, _, _)
CountPairs(rows, t, p) ==
    IF rows = <<>> THEN 0
    ELSE CountPairs(Tail(rows), t, p)
         + (IF Head(rows).snow_presence = t /\ Head(rows).cube_snow = p
            THEN 1 ELSE 0)

\* (mutant) the confusion matrix with rows and columns exchanged
confusion_matrix_Transposed(rows) ==
    [true_no_snow |-> CountPairs(rows, 0, 0),
     false_snow |-> CountPairs(rows, 1, 0),
     false_no_snow |-> CountPairs(rows, 0, 1),
     true_snow |-> CountPairs(rows, 1, 1)]

\* the confusion matrix of the true labels snow_presence against the
\* predicted labels cube_snow
confusion_matrix(rows) ==
    [true_no_snow |-> CountPairs(rows, 0, 0),
     false_snow |-> CountPairs(rows, 0, 1),
     false_no_snow |-> CountPairs(rows, 1, 0),
     true_snow |-> CountPairs(rows, 1, 1)]

\* (mutant) the accuracy of a station without ground truth is 0
accuracy_score_ZeroDefault(cm, n) ==
    IF n = 0 THEN <<0, 1>> ELSE <<cm.true_no_snow + cm.true_snow, n>>

\* accuracy = correct / total, as a quotient; undefined (0/0) when no row
\* is left
accuracy_score(cm, n) == <<cm.true_no_snow + cm.true_snow, n>>

\* validation_metrics(frame) of _32_cubes_utilities: accuracy and confusion
\* matrix over the rows with ground truth
validation_metrics(frame) ==
    LET rows == dropna(frame.rows)
        cm == confusion_matrix(rows)
    IN  [defined |-> TRUE, accuracy |-> accuracy_score(cm, Len(rows)),
         confusion_matrix |-> cm]

\* In[31] and the accuracy table: validation_metrics(smartino_snow), and so
\* on for every station
ValidationMetrics ==
    /\ pc = "site_snow"
    /\ metrics' = [s \in Stations |-> validation_metrics(site_snow[s])]
    /\ raised' = "none"
    /\ pc' = "validation_metrics"
    /\ UNCHANGED <<catchment_stations_fc, snow_time_series, catchment_stations_gpd, dates, snow_val,
                   station_frames, site_snow>>

---------------------------------------------------------------------------
(* Lazy loading on the local connection (notebooks 23) *)

\* operators chained on a cube before it is executed
MaxChain == 2

\* the processes the notebooks 23 chain on the loaded cube
Operators ==
    { "filter_temporal", "filter_bbox", "filter_bands", "reduce_dimension",
      "apply" }

NoDatacube ==
    [connection |-> "none", graph |-> <<>>, xarray |-> "none", dims |-> FALSE,
     pixels |-> FALSE, fetched_by |-> "none"]

\* the value of a cube cell that is not computed yet
NotComputed == <<NoData, 0>>

\* the cubes of the station extraction and of the map are not built
MedianIdle ==
    /\ snow_map_cloud_free = <<>>
    /\ snowmap_per_station = NotComputed
    /\ snow_map_4dcube = <<>>
    /\ snow_map_3dcube = NotComputed

\* the notebooks 23 are not run
RestIdle == datacube = NoDatacube /\ SENTINEL2_L2A = <<>> /\ MedianIdle

\* 23: datacube = local_conn.load_stac(url=url, spatial_extent=spatial_extent)
\* 31: s2 = conn.load_collection(...) on the backend
\* Either way the cube is a process graph of one node.
LoadStac ==
    /\ pc = "load"
    /\ \/ datacube = [NoDatacube EXCEPT !.connection = "local",
                                        !.graph = <<"load_stac">>]
       \/ datacube = [NoDatacube EXCEPT !.connection = "backend",
                                        !.graph = <<"load_collection">>]

\* datacube.filter_temporal(...), .reduce_dimension(...), ...: one more node
Chain ==
    /\ pc \in {"load", "chain"}
    /\ Len(datacube.graph) <= MaxChain
    /\ \E op \in Operators :
          datacube' = [datacube EXCEPT !.graph = Append(@, op)]
    /\ pc' = "chain"

\* (mutant) execute() loads the data
Fetches_Eager(call) == TRUE

\* the calls that make the pixel data be read
Fetches(call) == call \in {"compute", "plot.imshow", "download"}

\* the cube after a call: whether its pixel data was read, and by what
Called(call) ==
    [datacube EXCEPT
        !.pixels = @ \/ Fetches(call),
        !.fetched_by = IF Fetches(call) /\ ~datacube.pixels THEN call ELSE @]

\* datacube.execute() on the local connection: the graph is applied to lazily
\* loaded data and a dask backed xArray.DataArray comes back, with its
\* dimensions and their extents
Execute ==
    /\ pc \in {"load", "chain"}
    /\ datacube.connection = "local"
    /\ datacube' = [Called("execute") EXCEPT !.xarray = "lazy", !.dims = TRUE]
    /\ pc' = "execute"

\* ndvi_spatial_xr.compute(): the data is loaded into memory
Compute ==
    /\ pc = "execute"
    /\ datacube' = [Called("compute") EXCEPT !.xarray = "loaded"]
    /\ pc' = "compute"

\* data[0].plot.imshow(): the plot needs the values, which are loaded for it
PlotImshow ==
    /\ pc = "execute"
    /\ datacube' = Called("plot.imshow")
    /\ pc' = "plot"

\* 31 In[21]: snowmap_cloudfree_1d.download(...): the backend runs the graph
Download ==
    /\ pc \in {"load", "chain"}
    /\ datacube.connection = "backend"
    /\ datacube' = Called("download")
    /\ pc' = "download_nc"

---------------------------------------------------------------------------
(* Loading the cube, 31_data_processing.py In[11] and In[12] *)

\* eo:cloud_cover of a scene, in percent
CloudCovers == {0, 89, 90, 91, 100}

\* the limit given in properties
CloudCoverLimit == 90

\* the scenes of the collection: the scene cloud cover and the pixels of the
\* bounding box in the three bands
Scenes ==
    { [cloud_cover |-> c, pixels |-> [p \in Pix |-> px]] :
        c \in CloudCovers,
        px \in { [B03 |-> 7, B11 |-> 1, SCL |-> SCL_SNOW],
                 [B03 |-> 1, B11 |-> 7, SCL |-> SCL_CLOUD_HIGH] } }

\* openeo.processes.lte: x <= y
lte(x, y) == x <= y

\* properties = {"eo:cloud_cover": lambda x: lte(x, 90)}
properties(scene) == lte(scene.cloud_cover, CloudCoverLimit)

\* In[11]: the extents, the bands and the properties are defined
LoadInit ==
    /\ pc = "properties"
    /\ SENTINEL2_L2A \in [Times -> Scenes]
    /\ datacube = NoDatacube
    /\ MedianIdle
    /\ RasterIdle

\* In[12]: s2 = conn.load_collection(collection, ..., properties=properties)
LoadCollection ==
    /\ pc = "properties"
    /\ s2' = [t \in {d \in DOMAIN SENTINEL2_L2A : properties(SENTINEL2_L2A[d])}
                |-> SENTINEL2_L2A[t].pixels]
    /\ pc' = "s2"
    /\ UNCHANGED <<snowmap_cloudfree_masked, masks_reversed, reclassified,
                   catchment_outline, ndsi, snowmap, cloud_mask,
                   snowmap_cloudfree, n_pixels>>

---------------------------------------------------------------------------
(* The median reducer: 32_validation.py In[19], 33_data_sharing_myownmap.py *)
(* In[11]                                                                  *)

\* cells of a station buffer
MaxCells == 4
\* dates of the time dimension
MaxDates == 4

\* the classes of the snow map made by calculate_sca
MapClasses == {0, 1, CloudClass}

\* the arrays of 1 to n classes
ClassArrays(n) == UNION { [1 .. m -> MapClasses] : m \in 1 .. n }

\* the k-th smallest element of the array
KthSmallest(array, k) ==
    CHOOSE v \in Range(array) :
        /\ Cardinality({i \in DOMAIN array : array[i] < v}) < k
        /\ k <= Cardinality({i \in DOMAIN array : array[i] <= v})

\* the openEO process median: the middle element of the sorted array, or the
\* mean of the two middle elements when their number is even; null for an
\* empty array
median(array) ==
    IF array = <<>> THEN <<NoData, 1>>
    ELSE IF Len(array) % 2 = 1
    THEN <<KthSmallest(array, (Len(array) + 1) \div 2), 1>>
    ELSE <<KthSmallest(array, Len(array) \div 2)
              + KthSmallest(array, Len(array) \div 2 + 1), 2>>

\* 32 In[8]: snow_map_cloud_free = calculate_sca(conn, bbox, temporal_extent)
BufferInit ==
    /\ pc = "snow_map_cloud_free"
    /\ snow_map_cloud_free \in ClassArrays(MaxCells)
    /\ snowmap_per_station = NotComputed
    /\ snow_map_4dcube = <<>>
    /\ snow_map_3dcube = NotComputed

\* 32 In[19]: snowmap_per_station = snow_map_cloud_free.aggregate_spatial(
\*                catchment_stations_fc, reducer="median")
AggregateSpatialMedian ==
    /\ pc = "snow_map_cloud_free"
    /\ snowmap_per_station' = median(snow_map_cloud_free)
    /\ pc' = "snowmap_per_station"
    /\ UNCHANGED <<snow_map_cloud_free, snow_map_4dcube, snow_map_3dcube>>

\* 33 In[10]: snow_map_4dcube = calculate_sca(conn, bbox, temporal_extent)
MapInit ==
    /\ pc = "snow_map_4dcube"
    /\ snow_map_4dcube \in ClassArrays(MaxDates)
    /\ snow_map_3dcube = NotComputed
    /\ snow_map_cloud_free = <<>>
    /\ snowmap_per_station = NotComputed

\* 33 In[11]: snow_map_3dcube = snow_map_4dcube.reduce_dimension(
\*                reducer="median", dimension="t")
ReduceDimension ==
    /\ pc = "snow_map_4dcube"
    /\ snow_map_3dcube' = median(snow_map_4dcube)
    /\ pc' = "snow_map_3dcube"
    /\ UNCHANGED <<snow_map_cloud_free, snowmap_per_station, snow_map_4dcube>>

---------------------------------------------------------------------------
(* Specifications *)

Init == RasterInit /\ SeriesIdle /\ JobIdle /\ ValidationIdle /\ RestIdle

Next ==
    \/ (ComputeNdsi /\ UNCHANGED <<seriesVars, jobVars, validationVars, restVars>>)
    \/ (ComputeSnowmap /\ UNCHANGED <<seriesVars, jobVars, validationVars, restVars>>)
    \/ (ComputeCloudMask /\ UNCHANGED <<seriesVars, jobVars, validationVars, restVars>>)
    \/ (ApplyCloudMask /\ UNCHANGED <<seriesVars, jobVars, validationVars, restVars>>)
    \/ (MaskPolygon /\ UNCHANGED <<seriesVars, jobVars, validationVars, restVars>>)
    \/ (ReverseMasks /\ UNCHANGED <<seriesVars, jobVars, validationVars, restVars>>)
    \/ (CountPixels /\ UNCHANGED <<seriesVars, jobVars, validationVars, restVars>>)

Spec == Init /\ [][Next]_vars

InitSeries == SeriesInit /\ RasterIdle /\ JobIdle /\ ValidationIdle /\ RestIdle

NextSeries ==
    \/ (AssembleDf /\ UNCHANGED <<cubeVars, jobVars, validationVars, restVars>>)
    \/ (CalcPercCloud /\ UNCHANGED <<cubeVars, jobVars, validationVars, restVars>>)
    \/ (CalcPercSnow /\ UNCHANGED <<cubeVars, jobVars, validationVars, restVars>>)
    \/ (FilterCloud /\ UNCHANGED <<cubeVars, jobVars, validationVars, restVars>>)
    \/ (FilterAgain /\ UNCHANGED <<cubeVars, jobVars, validationVars, restVars>>)
    \/ (ExportCsv /\ UNCHANGED <<cubeVars, jobVars, validationVars, restVars>>)

SpecSeries == InitSeries /\ [][NextSeries]_vars

InitJob == JobInit /\ RasterIdle /\ ValidationIdle /\ RestIdle

\* the steps of the notebook
ClientJob ==
    \/ (StartJob /\ UNCHANGED <<cubeVars, seriesVars, validationVars, restVars>>)
    \/ (Poll /\ UNCHANGED <<cubeVars, seriesVars, validationVars, restVars>>)
    \/ (Sleep /\ UNCHANGED <<cubeVars, seriesVars, validationVars, restVars>>)
    \/ (ShowStatus /\ UNCHANGED <<cubeVars, seriesVars, validationVars, restVars>>)
    \/ (DownloadIfFinished /\ UNCHANGED <<cubeVars, seriesVars, validationVars, restVars>>)
    \/ (LoadTimeseries /\ UNCHANGED <<cubeVars, df, df_filtered, csv, validationVars, restVars>>)
    \/ (GetMetadata /\ UNCHANGED <<cubeVars, df, df_filtered, csv, validationVars, restVars>>)
    \/ (AssembleDf /\ UNCHANGED <<cubeVars, jobVars, validationVars, restVars>>)
    \/ (CalcPercCloud /\ UNCHANGED <<cubeVars, jobVars, validationVars, restVars>>)
    \/ (CalcPercSnow /\ UNCHANGED <<cubeVars, jobVars, validationVars, restVars>>)
    \/ (FilterCloud /\ UNCHANGED <<cubeVars, jobVars, validationVars, restVars>>)

\* the steps of the backend
BackendJob ==
    \/ (BackendRun /\ UNCHANGED <<cubeVars, seriesVars, validationVars, restVars>>)
    \/ (BackendFinish /\ UNCHANGED <<cubeVars, seriesVars, validationVars, restVars>>)
    \/ (BackendFail /\ UNCHANGED <<cubeVars, seriesVars, validationVars, restVars>>)
    \/ (BackendCancel /\ UNCHANGED <<cubeVars, seriesVars, validationVars, restVars>>)

NextJob == ClientJob \/ BackendJob

SpecJob == InitJob /\ [][NextJob]_vars

\* the loop of start_and_wait
Wait ==
    (Poll \/ Sleep) /\ UNCHANGED <<cubeVars, seriesVars, validationVars, restVars>>

\* The loop of start_and_wait keeps running: its steps are weakly fair.
\* Nothing in the code makes the backend move the job on.
SpecJobFair == InitJob /\ [][NextJob]_vars /\ WF_vars(Wait)

\* cutoffs tried: -0.5, 0, 0.4 and 1
Cutoffs == { <<-1, 2>>, <<0, 1>>, <<ThresholdNum, ThresholdDen>>, <<1, 1>> }

\* the threshold with cutoff c on the index, and once more on the classes
Reclassify ==
    /\ pc = "snowmap"
    /\ \E c \in Cutoffs :
          LET once == [t \in DOMAIN ndsi |-> [p \in DOMAIN ndsi[t] |->
                          Threshold(ndsi[t][p], c[1], c[2])]]
              twice == [t \in DOMAIN once |-> [p \in DOMAIN once[t] |->
                          Threshold(divide(once[t][p], 1), c[1], c[2])]]
          IN  reclassified' = [cutoff |-> c, once |-> once, twice |-> twice]
    /\ pc' = "reclassified"
    /\ UNCHANGED <<snowmap_cloudfree_masked, masks_reversed,
                   catchment_outline, s2, ndsi, snowmap, cloud_mask,
                   snowmap_cloudfree, n_pixels>>

InitGrid == GridInit /\ SeriesIdle /\ JobIdle /\ ValidationIdle /\ RestIdle

NextGrid ==
    \/ (ComputeNdsi /\ UNCHANGED <<seriesVars, jobVars, validationVars, restVars>>)
    \/ (ComputeSnowmap /\ UNCHANGED <<seriesVars, jobVars, validationVars, restVars>>)
    \/ (Reclassify /\ UNCHANGED <<seriesVars, jobVars, validationVars, restVars>>)

SpecGrid == InitGrid /\ [][NextGrid]_vars

InitLazy ==
    /\ LoadStac /\ RasterIdle /\ SeriesIdle /\ JobIdle /\ ValidationIdle
    /\ SENTINEL2_L2A = <<>>
    /\ MedianIdle

NextLazy ==
    \/ (Chain /\ UNCHANGED <<cubeVars, seriesVars, jobVars, validationVars, SENTINEL2_L2A, medianVars>>)
    \/ (Execute /\ UNCHANGED <<cubeVars, seriesVars, jobVars, validationVars, SENTINEL2_L2A, medianVars>>)
    \/ (Compute /\ UNCHANGED <<cubeVars, seriesVars, jobVars, validationVars, SENTINEL2_L2A, medianVars>>)
    \/ (PlotImshow /\ UNCHANGED <<cubeVars, seriesVars, jobVars, validationVars, SENTINEL2_L2A, medianVars>>)
    \/ (Download /\ UNCHANGED <<cubeVars, seriesVars, jobVars, validationVars, SENTINEL2_L2A, medianVars>>)

SpecLazy == InitLazy /\ [][NextLazy]_vars

InitLoad == LoadInit /\ SeriesIdle /\ JobIdle /\ ValidationIdle

NextLoad ==
    \/ (LoadCollection /\ UNCHANGED <<seriesVars, jobVars, validationVars, restVars>>)
    \/ (ComputeNdsi /\ UNCHANGED <<seriesVars, jobVars, validationVars, restVars>>)

SpecLoad == InitLoad /\ [][NextLoad]_vars

InitBuffer ==
    /\ BufferInit /\ RasterIdle /\ SeriesIdle /\ JobIdle /\ ValidationIdle
    /\ datacube = NoDatacube /\ SENTINEL2_L2A = <<>>

NextBuffer ==
    AggregateSpatialMedian
        /\ UNCHANGED <<cubeVars, seriesVars, jobVars, validationVars, datacube,
                       SENTINEL2_L2A>>

SpecBuffer == InitBuffer /\ [][NextBuffer]_vars

InitMap ==
    /\ MapInit /\ RasterIdle /\ SeriesIdle /\ JobIdle /\ ValidationIdle
    /\ datacube = NoDatacube /\ SENTINEL2_L2A = <<>>

NextMap ==
    ReduceDimension
        /\ UNCHANGED <<cubeVars, seriesVars, jobVars, validationVars, datacube,
                       SENTINEL2_L2A>>

SpecMap == InitMap /\ [][NextMap]_vars

\* of the batch job variables the validation cells use raised alone
jobRest == <<notebook, job_status, job_output, observed, results, used, file>>

InitValidation ==
    /\ ValidationInit
    /\ RasterIdle
    /\ SeriesIdle
    /\ notebook = "32"
    /\ job_status = "finished"
    /\ job_output = EmptyJson
    /\ observed = "finished"
    /\ results = "JobResults"
    /\ used = {"get_results", "download_files"}
    /\ file = NoFile
    /\ RestIdle

NextValidation ==
    \/ (BinarizeSnow /\ UNCHANGED <<cubeVars, seriesVars, jobRest, restVars>>)
    \/ (BufferStations /\ UNCHANGED <<cubeVars, seriesVars, jobRest, restVars>>)
    \/ (FeatureCollection /\ UNCHANGED <<cubeVars, seriesVars, jobRest, restVars>>)
    \/ (ExtractSnowValues /\ UNCHANGED <<cubeVars, seriesVars, jobRest, restVars>>)
    \/ (MatchDates /\ UNCHANGED <<cubeVars, seriesVars, jobRest, restVars>>)
    \/ (AssignSiteSnow /\ UNCHANGED <<cubeVars, seriesVars, jobRest, restVars>>)
    \/ (ValidationMetrics /\ UNCHANGED <<cubeVars, seriesVars, jobRest, restVars>>)

SpecValidation == InitValidation /\ [][NextValidation]_vars

---------------------------------------------------------------------------
(* Claims on the raster workflow *)

\* cells of the catchment holding class c at time t
CountClass(t, c) ==
    Cardinality({p \in catchment_outline : snowmap_cloudfree[t][p] = c})

\* C1: once the catchment is aggregated, at every timestep the total count
\* n_catchment is the sum of the cloud count (the cells holding 2, which is
\* what n_cloud counts from cloud_mask), the snow count (cells holding 1) and
\* the number of no-snow cells (cells holding 0); so n_cloud + n_snow never
\* exceeds n_catchment.
C1_ClosedPartition ==
    pc = "n_pixels" =>
        \A t \in Times :
            /\ n_pixels[t][2] = CountClass(t, CloudClass)
            /\ n_pixels[t][3] = CountClass(t, 1)
            /\ n_pixels[t][1] = n_pixels[t][2] + n_pixels[t][3] + CountClass(t, 0)
            /\ n_pixels[t][2] + n_pixels[t][3] <= n_pixels[t][1]

\* C1 witness: a timestep aggregated to one cloud cell and one no-snow cell,
\* another one holding a snow cell
C1_Witness ==
    /\ pc = "n_pixels"
    /\ \E t \in Times : /\ n_pixels[t][1] = 2 /\ n_pixels[t][2] = 1
                        /\ n_pixels[t][3] = 0 /\ CountClass(t, 0) = 1
    /\ \E t \in Times : n_pixels[t][3] >= 1

CloudScl == {SCL_CLOUD_SHADOW, SCL_CLOUD_MEDIUM, SCL_CLOUD_HIGH}

\* C2: wherever SCL is 3, 8 or 9 the cloud-masked snow map holds 2 whatever
\* the snow map held, elsewhere it holds the snow map's class; and n_snow
\* counts exactly the catchment cells that are snow and not cloud.
C2_CloudPrecedence ==
    /\ pc \in {"snowmap_cloudfree", "n_pixels"} =>
          \A t \in Times : \A p \in Pix :
              IF s2[t][p].SCL \in CloudScl
              THEN snowmap_cloudfree[t][p] = CloudClass
              ELSE snowmap_cloudfree[t][p] = snowmap[t][p]
    /\ pc = "n_pixels" =>
          \A t \in Times :
              n_pixels[t][3] =
                  Cardinality({p \in catchment_outline :
                      snowmap[t][p] = 1 /\ s2[t][p].SCL \notin CloudScl})

\* C2 witness: a catchment pixel that is cloudy and has NDSI > 0.4 is counted
\* as cloud and not as snow, next to a cloud shadow pixel
C2_Witness ==
    /\ pc = "n_pixels"
    /\ \E t \in Times : \E p \in catchment_outline :
          /\ s2[t][p].SCL = SCL_CLOUD_HIGH
          /\ snowmap[t][p] = 1
          /\ snowmap_cloudfree[t][p] = CloudClass
          /\ n_pixels[t][3] = 0
          /\ n_pixels[t][2] >= 1
    /\ \E t \in Times : \E p \in Pix : s2[t][p].SCL = SCL_CLOUD_SHADOW

---------------------------------------------------------------------------
(* Claims on the time series workflow *)

PercentStages == {"perc_snow", "df_filtered"}

\* the quotient q is the number n
QuotientIs(q, n) == q[1] # NoData /\ q[2] # 0 /\ q[1] = n * q[2]

\* C3: once both percentages are derived, every row with a positive total
\* holds perc_cloud = n_cloud / n_catchment * 100 and perc_snow = n_snow /
\* n_catchment * 100; a row with the counts 100, 20, 30 holds exactly 20 and
\* 30.
C3_CountsToPercent ==
    pc \in PercentStages =>
        \A i \in 1 .. Len(df) :
            LET r == df[i] IN
            /\ r.n_catchment_vals > 0 =>
                  /\ r.perc_cloud[2] # 0 /\ r.perc_snow[2] # 0
                  /\ r.perc_cloud[1] * r.n_catchment_vals
                        = 100 * r.n_cloud_vals * r.perc_cloud[2]
                  /\ r.perc_snow[1] * r.n_catchment_vals
                        = 100 * r.n_snow_vals * r.perc_snow[2]
            /\ ( r.n_catchment_vals = 100 /\ r.n_cloud_vals = 20
                 /\ r.n_snow_vals = 30 ) =>
                  QuotientIs(r.perc_cloud, 20) /\ QuotientIs(r.perc_snow, 30)

\* C3 witness: an assembled row of 100 pixels, 20 cloud and 30 snow, which
\* leaves 50 pixels that are neither
C3_Witness ==
    /\ pc = "perc_snow"
    /\ \E i \in 1 .. Len(df) :
          /\ df[i].n_catchment_vals = 100
          /\ df[i].n_cloud_vals = 20
          /\ df[i].n_snow_vals = 30
          /\ df[i].n_catchment_vals - df[i].n_cloud_vals - df[i].n_snow_vals = 50
          /\ QuotientIs(df[i].perc_cloud, 20)

\* the cloud percentage of row r is a number below 25
Below25(r) == r.perc_cloud[2] > 0 /\ r.perc_cloud[1] < 25 * r.perc_cloud[2]
\* the cloud percentage of row r is a number above 25
Above25(r) == r.perc_cloud[2] > 0 /\ r.perc_cloud[1] > 25 * r.perc_cloud[2]

C5_SortedByTime ==
    pc \in {"df", "perc_cloud", "perc_snow", "df_filtered"} =>
        /\ \A i, j \in 1 .. Len(df) : i < j => df[i].time < df[j].time
        /\ Len(df) = Len(n_pixels_json.keys)
        /\ \A k \in Range(n_pixels_json.keys) :
              \E i \in 1 .. Len(df) :
                  /\ df[i].time = to_datetime(k)
                  /\ << df[i].n_catchment_vals, df[i].n_cloud_vals,
                        df[i].n_snow_vals >> = n_pixels_json.val[k][1]

\* C5 witness: three keys stored latest first, with different counts
C5_Witness ==
    /\ pc = "df"
    /\ Len(n_pixels_json.keys) = 3
    /\ to_datetime(n_pixels_json.keys[1]) > to_datetime(n_pixels_json.keys[2])
    /\ to_datetime(n_pixels_json.keys[2]) > to_datetime(n_pixels_json.keys[3])
    /\ n_pixels_json.val[n_pixels_json.keys[1]]
          # n_pixels_json.val[n_pixels_json.keys[3]]

\* the quotient q is a number within [0, 100]
InPercentRange(q) == q[1] # NoData /\ q[2] > 0 /\ 0 <= q[1] /\ q[1] <= 100 * q[2]

\* C6: in every row perc_cloud and perc_snow are NaN when the total count
\* n_catchment is 0 and a number within [0, 100] otherwise.
C6_PercentRange ==
    pc \in PercentStages =>
        \A i \in 1 .. Len(df) :
            IF df[i].n_catchment_vals = 0
            THEN IsNaN(df[i].perc_cloud) /\ IsNaN(df[i].perc_snow)
            ELSE InPercentRange(df[i].perc_cloud)
                 /\ InPercentRange(df[i].perc_snow)

\* C6 witness: a series with an empty timestep, a fully clouded one and a
\* cloud free one
C6_Witness ==
    /\ pc = "perc_snow"
    /\ \E i \in 1 .. Len(df) :
          df[i].n_catchment_vals = 0 /\ IsNaN(df[i].perc_cloud)
    /\ \E i \in 1 .. Len(df) : QuotientIs(df[i].perc_cloud, 100)
    /\ \E i \in 1 .. Len(df) : QuotientIs(df[i].perc_cloud, 0)

---------------------------------------------------------------------------
(* Claims on the batch job *)

Lifecycle ==
    { <<"created", "queued">>, <<"queued", "running">>,
      <<"running", "finished">>, <<"running", "error">>,
      <<"running", "canceled">> }

\* C7: every change of the job's status is a step of the lifecycle
\* submitted (created, queued) -> running -> finished | error | canceled, a
\* terminal status is never left, and every call on the job's results
\* (get_results, download_files, get_metadata) is made with the job finished
\* and after job.status() returned "finished".
C7_JobLifecycle ==
    [][ /\ job_status' # job_status => <<job_status, job_status'>> \in Lifecycle
        /\ job_status \in Terminal => job_status' = job_status
        /\ used' # used => observed' = "finished" /\ job_status' = "finished"
      ]_vars

\* C7 witness: notebook 33 has fetched, downloaded and read the metadata of
\* the results of a finished job
C7_Witness ==
    /\ job_status = "finished"
    /\ observed = "finished"
    /\ used = {"get_results", "download_files", "get_metadata"}

LoadedStages == {"n_pixels_json", "df", "perc_cloud", "perc_snow", "df_filtered"}

\* C8: when the job ended in error or canceled, the wait ends with an
\* exception naming the failure, and the notebook does not go on to load
\* and process a timeseries.json.
C8_FailureSurfaced ==
    job_status \in Failure =>
        /\ pc = "start_and_wait" => raised = "JobFailedException"
        /\ pc \notin LoadedStages

\* C9: a wait that has begun ends, whatever the backend does with the job:
\* after finitely many polls start_and_wait returns or raises.  (No step of
\* the notebook cancels the job or the wait.)
C9_BoundedWait == (pc = "poll") ~> (pc \notin {"poll", "sleep"})

---------------------------------------------------------------------------
(* Claims on the validation workflow *)

\* In[27] was evaluated
Assigned == pc \in {"site_snow", "stopped"}

\* the pairs of a station, each with the date of its row
Pairs(s) ==
    { <<r.id, r.snow_presence, r.cube_snow>> : r \in Range(site_snow[s].rows) }

\* the SCA value of the series for station s on date d
ScaOn(s, d) ==
    LET k == CHOOSE k \in Range(snow_time_series.keys) : split_T(k) = d
    IN  snow_time_series.val[k][s][1]

\* the join on the date of the station's records and the SCA series
InnerJoin(s) ==
    { <<r.id, r.snow_presence, ScaOn(s, r.id)>> :
        r \in { r \in Range(catchment_stations_gpd) :
                  /\ r.Name = StationNames[s]
                  /\ r.id \in { split_T(k) : k \in Range(snow_time_series.keys) } } }

\* C10: once the SCA values were assigned to the station frames, the pairs
\* (snow_presence, SCA value) of every station are the inner join on the
\* date of the station's records and the SCA series: both values of a pair
\* are of the same date and the dates are those present in both, whatever
\* the key order of the JSON and whatever dates a station has records on.
C10_InnerJoin ==
    Assigned => \A s \in Stations :
                    site_snow[s].defined /\ Pairs(s) = InnerJoin(s)

\* the ground truth and the derived labels of a station's pairs
GroundTruth(s) ==
    [i \in 1 .. Len(site_snow[s].rows) |-> site_snow[s].rows[i].snow_presence]

Derived(s) ==
    [i \in 1 .. Len(site_snow[s].rows) |-> site_snow[s].rows[i].cube_snow]

\* the pairs of station s with ground truth t and derived label p
PairsWith(s, t, p) ==
    { i \in 1 .. Len(site_snow[s].rows) :
        GroundTruth(s)[i] = t /\ Derived(s)[i] = p }

CellSum(cm) ==
    cm.true_snow + cm.false_snow + cm.true_no_snow + cm.false_no_snow

Compared == pc = "validation_metrics"

\* C11 (as stated): the four cells of every station's confusion matrix sum to
\* the number of its common timestamps.
C11_CellsSumToCommon ==
    Compared => \A s \in Stations :
        CellSum(metrics[s].confusion_matrix) = Len(site_snow[s].rows)

\* C11: the confusion matrix of a station counts the four combinations of
\* (ground truth, derived) over its pairs and the accuracy is correct /
\* total; ground truth [1,1,0,0] against derived [1,0,0,0] gives true_snow 1,
\* false_snow 0, true_no_snow 2, false_no_snow 1 and accuracy 3/4; the four
\* cells sum to the number of common timestamps on which the ground truth is
\* not missing.
C11_ConfusionMatrix ==
    Compared => \A s \in Stations :
        LET cm == metrics[s].confusion_matrix
            known == { i \in 1 .. Len(site_snow[s].rows) : GroundTruth(s)[i] # NaN }
        IN  /\ cm.true_snow = Cardinality(PairsWith(s, 1, 1))
            /\ cm.false_snow = Cardinality(PairsWith(s, 0, 1))
            /\ cm.true_no_snow = Cardinality(PairsWith(s, 0, 0))
            /\ cm.false_no_snow = Cardinality(PairsWith(s, 1, 0))
            /\ CellSum(cm) = Cardinality(known)
            /\ metrics[s].accuracy = <<cm.true_snow + cm.true_no_snow, Cardinality(known)>>
            /\ (GroundTruth(s) = <<1, 1, 0, 0>> /\ Derived(s) = <<1, 0, 0, 0>>
                  => /\ cm = [true_snow |-> 1, false_snow |-> 0,
                              true_no_snow |-> 2, false_no_snow |-> 1]
                     /\ metrics[s].accuracy[1] * 4 = 3 * metrics[s].accuracy[2]
                     /\ metrics[s].accuracy[2] # 0)

\* the scenario of C11 was compared, and so was a station with ground truth
\* missing on one of its common timestamps
C11_Witness ==
    /\ Compared
    /\ \E s \in Stations :
          GroundTruth(s) = <<1, 1, 0, 0>> /\ Derived(s) = <<1, 0, 0, 0>>
    /\ \E s \in Stations :
          \E i, j \in 1 .. Len(site_snow[s].rows) :
              GroundTruth(s)[i] = NaN /\ GroundTruth(s)[j] # NaN

\* the ground truth of station s is missing on all its common timestamps
AllMissing(s) ==
    /\ site_snow[s].rows # <<>>
    /\ \A i \in 1 .. Len(site_snow[s].rows) : GroundTruth(s)[i] = NaN

\* C12: a station whose ground truth is missing on all common timestamps
\* gets a validation result whose accuracy is undefined (0/0), not 0 nor any
\* other number, and computing it raises nothing.
C12_UndefinedAccuracy ==
    Compared => \A s \in Stations :
        AllMissing(s) => /\ metrics[s].defined
                         /\ IsNaN(metrics[s].accuracy)
                         /\ raised = "none"

\* a station without ground truth was compared next to one with ground truth
C12_Witness ==
    /\ Compared
    /\ \E s \in Stations : AllMissing(s) /\ metrics[s].defined
    /\ \E s \in Stations : ~AllMissing(s) /\ ~IsNaN(metrics[s].accuracy)

---------------------------------------------------------------------------
(* Claims on the index and the threshold *)

\* the raster holds green = g and swir = w in every pixel
Uniform(g, w) ==
    \A t \in DOMAIN s2 : \A p \in DOMAIN s2[t] :
        s2[t][p].B03 = g /\ s2[t][p].B11 = w

\* C13: on the 3x3 raster with green 1 and swir 0 in every pixel the
\* normalized difference is 1 in every pixel, and the threshold 0.4 puts
\* every pixel in class 1.
C13_UniformSnow ==
    Uniform(1, 0) =>
        /\ pc \in {"ndsi", "snowmap"} =>
              \A t \in DOMAIN ndsi : \A p \in DOMAIN ndsi[t] :
                  QuotientIs(ndsi[t][p], 1)
        /\ pc = "snowmap" =>
              \A t \in DOMAIN snowmap : \A p \in DOMAIN snowmap[t] :
                  snowmap[t][p] = 1

C13_Witness ==
    /\ Uniform(1, 0)
    /\ pc = "snowmap"
    /\ \A t \in DOMAIN snowmap : DOMAIN snowmap[t] = GridPix

\* the quotient q lies in [-1, 1]
InUnitRange(q) == q[2] # 0 /\ q[1] * q[1] <= q[2] * q[2]

\* C14: the normalized difference of every pixel that holds data in both
\* bands, with green + swir # 0, lies in [-1, 1].
C14_IndexRange ==
    pc \in {"ndsi", "snowmap"} =>
        \A t \in DOMAIN s2 : \A p \in DOMAIN s2[t] :
            (/\ s2[t][p].B03 # NoData
             /\ s2[t][p].B11 # NoData
             /\ s2[t][p].B03 + s2[t][p].B11 # 0) => InUnitRange(ndsi[t][p])

\* classifying the classes again changed no pixel
Idempotent ==
    \A t \in DOMAIN reclassified.once : \A p \in DOMAIN reclassified.once[t] :
        reclassified.twice[t][p] = reclassified.once[t][p]

\* the cutoff lies in [0, 1)
CutoffBetweenClasses(c) == 0 <= c[1] /\ c[1] < c[2]

\* C15 (as stated): for every cutoff, classifying the class raster again
\* with the same cutoff yields the same classes.
C15_IdempotentAnyCutoff == pc = "reclassified" => Idempotent

\* C15: for every cutoff c with 0 <= c < 1, the cutoff 0.4 of the snow map
\* among them, classifying the class raster again with the same cutoff
\* yields the same class for every pixel.
C15_IdempotentThreshold ==
    (pc = "reclassified" /\ CutoffBetweenClasses(reclassified.cutoff))
        => Idempotent

\* the cutoff 0.4 was applied twice to a raster with pixels of both classes
C15_Witness ==
    /\ pc = "reclassified"
    /\ reclassified.cutoff = <<ThresholdNum, ThresholdDen>>
    /\ reclassified.once = snowmap
    /\ \E t \in DOMAIN snowmap : \E p1, p2 \in DOMAIN snowmap[t] :
          snowmap[t][p1] = 1 /\ snowmap[t][p2] = 0

---------------------------------------------------------------------------
(* Further claims on the time series workflow *)

\* C16: filtering df_filtered again with perc_cloud < 25 returns exactly
\* df_filtered, whatever the series holds, undefined percentages included.
C16_FilterIdempotent ==
    [][pc' = "filtered_again" => df_filtered' = df_filtered]_vars

\* a series with an undefined percentage, a row above and a row below the
\* threshold was filtered twice
C16_Witness ==
    /\ pc = "filtered_again"
    /\ \E r \in Range(df) : IsNaN(r.perc_cloud)
    /\ \E r \in Range(df) : Above25(r)
    /\ df_filtered # <<>>

---------------------------------------------------------------------------
(* Further claims on the raster workflow *)

\* the cell is covered by the cloud mask and by the mask of the polygon
Overlap(t, p) == cloud_mask[t][p] = 1 /\ p \notin catchment_outline

\* C17: in a cell covered by both the cloud mask (override 2) and the mask of
\* the polygon (override null), the masks applied as [cloud, polygon] leave
\* null and applied as [polygon, cloud] leave 2: each order leaves the
\* override of the mask applied last, and the two rasters differ.
C17_OrderSensitive ==
    pc = "masks_reversed" =>
        \A t \in Times : \A p \in Pix :
            Overlap(t, p) =>
                /\ snowmap_cloudfree_masked[t][p] = NoData
                /\ masks_reversed[t][p] = CloudClass
                /\ snowmap_cloudfree_masked # masks_reversed

\* both orders were applied to a raster with a cloud outside the polygon
C17_Witness ==
    /\ pc = "masks_reversed"
    /\ \E t \in Times : \E p \in Pix : Overlap(t, p)
    /\ snowmap_cloudfree_masked # masks_reversed

\* the timesteps of the frame without a pixel in the catchment
EmptyTimesteps == { r \in Range(df) : r.n_catchment_vals = 0 }

\* C18: a timestep with n_catchment = 0 has undefined (NaN) percentages,
\* not 0, and is neither in df_filtered nor in the exported CSV.
C18_EmptyTimestep ==
    /\ pc \in {"perc_snow", "df_filtered", "to_csv"} =>
          \A r \in EmptyTimesteps : IsNaN(r.perc_cloud) /\ IsNaN(r.perc_snow)
    /\ pc \in {"df_filtered", "to_csv"} =>
          \A r \in Range(df_filtered) : r.n_catchment_vals # 0
    /\ pc = "to_csv" =>
          /\ csv.exists
          /\ \A r \in Range(csv.rows) : r.n_catchment_vals # 0

\* a series with an empty timestep and a timestep of 0 % cloud was exported:
\* the latter is in the CSV
C18_Witness ==
    /\ pc = "to_csv"
    /\ EmptyTimesteps # {}
    /\ \E r \in Range(csv.rows) :
          r.n_catchment_vals > 0 /\ r.n_cloud_vals = 0

\* the pixel holds data with green + swir = 0
ZeroSum(t, p) ==
    /\ s2[t][p].B03 # NoData
    /\ s2[t][p].B11 # NoData
    /\ s2[t][p].B03 + s2[t][p].B11 = 0

AfterNdsi ==
    {"ndsi", "snowmap", "cloud_mask", "snowmap_cloudfree",
     "snowmap_cloudfree_masked", "masks_reversed", "n_pixels"}

\* C19: a pixel with green + swir = 0 has an undefined NDSI and stays
\* undefined downstream: the snow map holds neither snow nor no-snow for it,
\* and it is in neither n_snow nor n_catchment unless the cloud mask
\* overrides it.
C19_NaNPropagates ==
    \A t \in Times : \A p \in Pix :
        ZeroSum(t, p) =>
            /\ pc \in AfterNdsi => ndsi[t][p][2] = 0
            /\ pc \in AfterNdsi \ {"ndsi"} => snowmap[t][p] \notin {0, 1}
            /\ (pc \in AfterNdsi \ {"ndsi", "snowmap", "cloud_mask"}
                  /\ cloud_mask[t][p] # 1)
                 => /\ NSnowCell(snowmap_cloudfree[t][p]) # 1
                    /\ NCatchmentCell(snowmap_cloudfree[t][p]) # 1

Classes == {0, 1, CloudClass}

AfterCloudfree ==
    {"snowmap_cloudfree", "snowmap_cloudfree_masked", "masks_reversed",
     "n_pixels"}

\* the pixel has no data in the green or in the swir band
NoBandData(t, p) == s2[t][p].B03 = NoData \/ s2[t][p].B11 = NoData

\* C20 (as stated): every cell of snowmap_cloudfree holds one of the classes
\* 0, 1, 2, for every input.
C20_ThreeClassesEverywhere ==
    pc \in AfterCloudfree =>
        \A t \in Times : \A p \in Pix : snowmap_cloudfree[t][p] \in Classes

\* C20: every cell of snowmap_cloudfree holds exactly one of the classes 0,
\* 1, 2, pixels with a NaN index included, except the cells of pixels without
\* data in a band that are not marked as cloud: these hold no data.
C20_ThreeClasses ==
    pc \in AfterCloudfree =>
        \A t \in Times : \A p \in Pix :
            IF NoBandData(t, p) /\ cloud_mask[t][p] # 1
            THEN snowmap_cloudfree[t][p] = NoData
            ELSE snowmap_cloudfree[t][p] \in Classes

\* a scene with a cloud, a pixel of NaN index and a pixel without data was
\* cloud masked
C20_Witness ==
    /\ pc = "snowmap_cloudfree"
    /\ \E t \in Times : \E p \in Pix : snowmap_cloudfree[t][p] = CloudClass
    /\ \E t \in Times : \E p \in Pix :
          IsNaN(ndsi[t][p]) /\ snowmap_cloudfree[t][p] = 0
    /\ \E t \in Times : \E p \in Pix : NoBandData(t, p)

---------------------------------------------------------------------------
(* Claims on the lazy loading *)

---------------------------------------------------------------------------
(* Further claims on the validation workflow *)

\* what a station record holds of the station: location, date and snow depth
Measured(r) == <<r.Name, r.geometry, r.id, r.HS_after_gapfill>>

\* C22: no step after the filtering changes the location, the date or the
\* measured value of a record of the station table.
C22_StationsFrozen ==
    [][ /\ Len(catchment_stations_gpd') = Len(catchment_stations_gpd)
        /\ \A i \in 1 .. Len(catchment_stations_gpd) :
              Measured(catchment_stations_gpd'[i])
                  = Measured(catchment_stations_gpd[i]) ]_vars

---------------------------------------------------------------------------
(* Claims on immutability *)

\* the cubes of the raster workflow: a step that does not construct a cube
\* leaves it as it is, so cloud_mask and snowmap_cloudfree are the same when
\* they are counted
CubesImmutable ==
    [][ /\ s2' = s2
        /\ pc' # "ndsi" => ndsi' = ndsi
        /\ pc' # "snowmap" => snowmap' = snowmap
        /\ pc' # "cloud_mask" => cloud_mask' = cloud_mask
        /\ pc' # "snowmap_cloudfree" => snowmap_cloudfree' = snowmap_cloudfree
      ]_vars

\* C23: the tables of the time series workflow are immutable after their
\* construction: no step after In[31] changes df, the percentage
\* computation and the filter included.
C23_TablesImmutable ==
    [][ /\ n_pixels_json' = n_pixels_json
        /\ pc # "n_pixels_json" => df' = df ]_vars

---------------------------------------------------------------------------
(* Claims on boundaries *)

\* the index of the pixel is a number
Finite(q) == q[1] # NoData /\ q[2] > 0

\* C24: a pixel whose NDSI is a number is classified as snow (1) exactly when
\* the NDSI is greater than 0.4, and as no snow (0) otherwise; a pixel whose
\* NDSI is 0.4 exactly is no snow.
C24_StrictThreshold ==
    pc \in {"snowmap", "reclassified"} =>
        \A t \in DOMAIN snowmap : \A p \in DOMAIN snowmap[t] :
            Finite(ndsi[t][p]) =>
                /\ snowmap[t][p] \in {0, 1}
                /\ snowmap[t][p] = 1 <=>
                      ndsi[t][p][1] * ThresholdDen > ThresholdNum * ndsi[t][p][2]
                /\ QuotientIs([i \in 1 .. 2 |-> ndsi[t][p][i] * ThresholdDen],
                              ThresholdNum) => snowmap[t][p] = 0

\* a raster with a pixel of NDSI 0.4 exactly, classified as no snow, next to
\* a pixel classified as snow
C24_Witness ==
    /\ pc = "snowmap"
    /\ \E t \in DOMAIN snowmap : \E p1, p2 \in DOMAIN snowmap[t] :
          /\ Finite(ndsi[t][p1])
          /\ ndsi[t][p1][1] * ThresholdDen = ThresholdNum * ndsi[t][p1][2]
          /\ snowmap[t][p1] = 0
          /\ snowmap[t][p2] = 1

\* C25: a timestep is absent from df_filtered exactly when its cloud
\* percentage is over 25: every row of df with perc_cloud above 25 is dropped
\* and every row with a defined perc_cloud of at most 25 is kept.
C25_DiscardOver25 ==
    pc = "df_filtered" =>
        \A r \in Range(df) :
            r.perc_cloud[2] > 0 =>
                (r \in Range(df_filtered) <=> ~Above25(r))

\* C26: no scene with eo:cloud_cover of 90 or more is part of the loaded
\* cube s2.
C26_NoSceneFrom90 ==
    pc \in {"s2", "ndsi"} =>
        \A t \in DOMAIN s2 : SENTINEL2_L2A[t].cloud_cover < 90

\* the record holds the three bands of
\* n_catchment.merge_cubes(n_cloud).merge_cubes(n_snow) and nothing else
ExpectedLayout(record) == Len(record) = 3

\* C27: the loaded records hold n_catchment, n_cloud and n_snow at the
\* positions 0, 1 and 2, and a record of another layout is detected when the
\* file is parsed: it is never decoded into rows.
C27_LayoutValidated ==
    pc \in {"df", "perc_cloud", "perc_snow", "df_filtered"} =>
        \A k \in Range(n_pixels_json.keys) :
            /\ ExpectedLayout(n_pixels_json.val[k][1])
            /\ \E i \in 1 .. Len(df) :
                  << df[i].n_catchment_vals, df[i].n_cloud_vals,
                     df[i].n_snow_vals >> = n_pixels_json.val[k][1]

\* C28: the feature collection holds one geometry per station, and the
\* geometry at index i is the one of the station whose series is read at
\* index i, whatever the order of the rows of the station table.
C28_GeometryPerStation ==
    pc \in {"snow_time_series", "snow_val", "station_frames", "site_snow",
            "validation_metrics", "stopped"} =>
        /\ Len(catchment_stations_fc) = NStations
        /\ \A s \in Stations :
              catchment_stations_fc[s].station = StationNames[s]

---------------------------------------------------------------------------
(* Claims on the median reducer *)

\* the number of cells of the array that hold class c
CellsOf(array, c) == Cardinality({i \in DOMAIN array : array[i] = c})

\* C29: the value extracted for a station buffer is snow (1) or snow-free
\* (0), and it is the most common class among the cells of the buffer.
C29_MostCommonClass ==
    pc = "snowmap_per_station" =>
        \E v \in {0, 1} :
            /\ QuotientIs(snowmap_per_station, v)
            /\ \A c \in MapClasses :
                  CellsOf(snow_map_cloud_free, c) <= CellsOf(snow_map_cloud_free, v)

\* C30: with the time dimension reduced, the pixel holds one of the three
\* values 0, 1 and 2.
C30_ThreeValuesAfterMedian ==
    pc = "snow_map_3dcube" =>
        \E v \in MapClasses : QuotientIs(snow_map_3dcube, v)

====
